---- MODULE Spec2Model ----
(***************************************************************************)
(* grpc-sys/build.rs as a state machine: one run of the build script.      *)
(*                                                                         *)
(* Text is modelled as a sequence of tokens (a token stands for a run of   *)
(* characters that none of the script's string operations cuts through),   *)
(* a file as a sequence of lines, a descriptor-file line as a sequence of  *)
(* whitespace-separated words.  The directives printed for cargo are kept  *)
(* as a bag: the script prints the collected library names in HashSet      *)
(* iteration order, which is unspecified, and nothing downstream depends   *)
(* on the order of the directives.                                         *)
(***************************************************************************)
EXTENDS Bags, FiniteSets, Integers, Sequences, TLC

(* ------------------------------------------------------------------ *)
(* Bounds                                                              *)
(* ------------------------------------------------------------------ *)

\* A run starts from the nominal inputs changed in at most MaxDev places.
MaxDev == 2

(* ------------------------------------------------------------------ *)
(* Results, options, text                                              *)
(* ------------------------------------------------------------------ *)

\* The characters of a string, at token granularity.
Str(s) ==
    CASE s = "/opt/cc=11/g++" -> <<"/opt/cc", "=", "11/g++">>
      [] s = "x86_64-pc-windows-msvc" -> <<"x86_64-pc-windows-", "msvc">>
      [] s = "" -> <<>>
      [] OTHER -> <<s>>

\* std::env::var: Ok(text), Err(NotPresent), Err(NotUnicode).
OkText(text) == [kind |-> "Ok", val |-> text]
Ok(s) == OkText(Str(s))
NotPresent == [kind |-> "NotPresent", val |-> <<>>]
NotUnicode == [kind |-> "NotUnicode", val |-> <<>>]

Some(v) == [some |-> TRUE, val |-> v]
None == [some |-> FALSE, val |-> <<>>]

StartsWith(s, prefix) ==
    Len(s) >= Len(prefix) /\ SubSeq(s, 1, Len(prefix)) = prefix

RECURSIVE TrimStartMatches(_, _)
TrimStartMatches(s, prefix) ==
    IF prefix # <<>> /\ StartsWith(s, prefix)
    THEN TrimStartMatches(SubSeq(s, Len(prefix) + 1, Len(s)), prefix)
    ELSE s

trim_start(s, prefix) ==
    IF StartsWith(s, prefix) THEN Some(TrimStartMatches(s, prefix)) ELSE None

\* str::splitn(2, sep): the text before the first sep, and the rest if any.
SplitN2(s, sep) ==
    IF \E i \in 1..Len(s) : s[i] = sep
    THEN LET i == CHOOSE k \in 1..Len(s) :
                      s[k] = sep /\ \A j \in 1..(k - 1) : s[j] # sep
         IN  <<SubSeq(s, 1, i - 1), SubSeq(s, i + 1, Len(s))>>
    ELSE <<s>>

Contains(s, sub) ==
    \E i \in 1..(Len(s) - Len(sub) + 1) : SubSeq(s, i, i + Len(sub) - 1) = sub

EndsWith(s, suffix) ==
    Len(s) >= Len(suffix) /\ SubSeq(s, Len(s) - Len(suffix) + 1, Len(s)) = suffix

\* Path::parent: None for the empty path and for the root.
Parent(path) ==
    IF path = <<>> \/ path = <<"/">> THEN None
    ELSE IF Len(path) = 1 THEN Some(<<>>)
    ELSE Some(SubSeq(path, 1, Len(path) - 2))

NoFile == [exists |-> FALSE, lines |-> <<>>]
File(lines) == [exists |-> TRUE, lines |-> lines]

(* ------------------------------------------------------------------ *)
(* Directives printed for cargo                                        *)
(* ------------------------------------------------------------------ *)

D(by, kind, arg) == [by |-> by, kind |-> kind, arg |-> arg]

RECURSIVE Emit(_, _)
Emit(bag, ds) ==
    IF ds = <<>> THEN bag
    ELSE Emit(bag (+) SetToBag({Head(ds)}), Tail(ds))

Count(bag, d) == IF d \in DOMAIN bag THEN bag[d] ELSE 0

(* ------------------------------------------------------------------ *)
(* Program constants                                                   *)
(* ------------------------------------------------------------------ *)

Modules ==
    <<"grpc", "grpc/third_party/cares/cares", "grpc/third_party/address_sorting",
      "grpc/third_party/abseil-cpp", "grpc/third_party/re2">>

PreGenerated == {Str("x86_64-unknown-linux-gnu"), Str("aarch64-unknown-linux-gnu")}

Features ==
    {"secure", "openssl", "openssl-vendored", "no-omit-frame-pointer", "use-bindgen"}

EnvVars ==
    {"CARGO_CFG_TARGET_OS", "GRPCIO_SYS_USE_PKG_CONFIG", "CXX", "CARGO_CFG_TARGET_ENV",
     "TARGET", "OUT_DIR", "CMAKE_TARGET_OVERRIDE", "CMAKE_PREFIX_PATH", "DEP_Z_ROOT",
     "UPDATE_BIND", "TEST_BIND", "CARGO_MANIFEST_DIR"}

\* cc::Build::get_compiler().path() of the builder main creates (cpp not yet set).
DefaultCompiler == "cc"

\* The compiler the native build tool finds when none is defined for it.
NativeDefaultCompiler == "/usr/bin/c++"

(* ------------------------------------------------------------------ *)
(* Files the script reads                                              *)
(* ------------------------------------------------------------------ *)

CompilerLine(p) == <<"CMAKE_CXX_COMPILER:", "STRING", "=">> \o Str(p)

OtherCacheLines ==
    << <<"# This is the CMakeCache file.">>,
       <<"CMAKE_CXX_COMPILER_AR:", "FILEPATH", "=", "/usr/bin/ar">>,
       <<"CMAKE_BUILD_TYPE:", "STRING", "=", "Release">> >>

\* A configuration cache whose CMAKE_CXX_COMPILER entry records compiler p.
CacheRecording(p) ==
    File(<<OtherCacheLines[1], CompilerLine(p), OtherCacheLines[2], OtherCacheLines[3]>>)

CacheWithoutCompiler == File(OtherCacheLines)

CacheWithoutValue ==
    File(<<OtherCacheLines[1], <<"CMAKE_CXX_COMPILER:", "UNINITIALIZED">> >>)

CryptoLine(dir) ==
    <<"OPENSSL_CRYPTO_LIBRARY:FILEPATH=">> \o <<dir, "/", "libcrypto.so">>

SslLine(dir) ==
    <<"OPENSSL_SSL_LIBRARY:FILEPATH=">> \o <<dir, "/", "libssl.so">>

SslNotFoundLine == <<"OPENSSL_SSL_LIBRARY:FILEPATH=", "OPENSSL_SSL_LIBRARY-NOTFOUND">>

\* A descriptor file with the given words on its "Libs: " line.
Lib(name) == <<"-l", name>>

PcFile(libs) ==
    File(<< << <<"Name:">>, <<"gRPC">> >>,
            << <<"Libs:">>, <<"-L", "${libdir}">> >> \o libs,
            << <<"Libs.private:">>, Lib("m") >>,
            << <<"Cflags:">>, <<"-I", "${includedir}">> >> >>)

(* ------------------------------------------------------------------ *)
(* Inputs of a run                                                     *)
(* ------------------------------------------------------------------ *)

BuildDirAbsent == [exists |-> FALSE, cache |-> NoFile]
BuildDirWith(cache) == [exists |-> TRUE, cache |-> cache]

Nominal ==
    [ CARGO_CFG_TARGET_OS |-> Ok("linux"),
      GRPCIO_SYS_USE_PKG_CONFIG |-> NotPresent,
      CXX |-> NotPresent,
      CARGO_CFG_TARGET_ENV |-> Ok("gnu"),
      TARGET |-> Ok("x86_64-unknown-linux-gnu"),
      OUT_DIR |-> Ok("out"),
      CMAKE_TARGET_OVERRIDE |-> NotPresent,
      CMAKE_PREFIX_PATH |-> NotPresent,
      DEP_Z_ROOT |-> Ok("zroot"),
      UPDATE_BIND |-> NotPresent,
      TEST_BIND |-> NotPresent,
      CARGO_MANIFEST_DIR |-> Ok("manifest"),
      secure |-> TRUE,
      openssl |-> FALSE,
      \* the next three names are spelled with '-' in Cargo.toml
      openssl_vendored |-> FALSE,
      no_omit_frame_pointer |-> FALSE,
      use_bindgen |-> TRUE,
      mod1 |-> "ok", mod2 |-> "ok", mod3 |-> "ok", mod4 |-> "ok", mod5 |-> "ok",
      build_dir |-> BuildDirAbsent,
      native_ssl |-> <<CryptoLine("/usr/lib"), SslLine("/usr/lib")>>,
      gpr_pc |-> PcFile(<<Lib("gpr")>>),
      lib_pc |-> PcFile(<<Lib("grpc"), Lib("gpr"), Lib("upb")>>) ]

Dims == DOMAIN Nominal

\* The other values of each input, in a fixed order.
Alts(d) ==
    CASE d = "CARGO_CFG_TARGET_OS" ->
            <<Ok("macos"), Ok("ios"), Ok("windows"), NotUnicode>>
      [] d = "GRPCIO_SYS_USE_PKG_CONFIG" -> <<Ok("1"), Ok("0"), NotUnicode>>
      [] d = "CXX" -> <<Ok("g++"), Ok("/opt/cc=11/g++"), NotUnicode>>
      [] d = "CARGO_CFG_TARGET_ENV" -> <<Ok("musl"), NotPresent>>
      [] d = "TARGET" ->
            <<Ok("aarch64-unknown-linux-gnu"), Ok("aarch64-apple-ios"),
              Ok("x86_64-pc-windows-msvc"), NotUnicode>>
      [] d = "OUT_DIR" -> <<NotUnicode>>
      [] d = "CMAKE_TARGET_OVERRIDE" -> <<Ok("aarch64-linux-android"), NotUnicode>>
      [] d = "CMAKE_PREFIX_PATH" -> <<Ok("/opt/prefix"), NotUnicode>>
      [] d = "DEP_Z_ROOT" -> <<NotPresent>>
      [] d = "UPDATE_BIND" -> <<Ok("1"), Ok(""), NotUnicode>>
      [] d = "TEST_BIND" -> <<Ok("1"), NotUnicode>>
      [] d = "CARGO_MANIFEST_DIR" -> <<NotUnicode>>
      [] d \in {"secure", "openssl", "openssl_vendored", "no_omit_frame_pointer",
                "use_bindgen"} -> <<~Nominal[d]>>
      [] d \in {"mod1", "mod2", "mod3", "mod4", "mod5"} -> <<"empty", "missing">>
      [] d = "build_dir" ->
            <<BuildDirWith(NoFile), BuildDirWith(CacheRecording(DefaultCompiler)),
              BuildDirWith(CacheRecording("g++")),
              BuildDirWith(CacheRecording("/opt/cc=11/g++")),
              BuildDirWith(CacheWithoutCompiler), BuildDirWith(CacheWithoutValue)>>
      [] d = "native_ssl" ->
            << <<>>, <<SslLine("/usr/lib")>>,
               <<CryptoLine("/opt/ssl/lib"), SslNotFoundLine>>,
               <<CryptoLine("/usr/lib"), CryptoLine("/opt/ssl/lib")>>,
               <<CryptoLine("/usr/lib"), SslLine("/usr/lib"), SslLine("/opt/ssl/lib")>> >>
      [] d = "gpr_pc" -> <<PcFile(<<Lib("gpr"), Lib("upb"), Lib("gpr")>>), NoFile>>
      [] d = "lib_pc" ->
            <<PcFile(<<Lib("grpc"), Lib("ssl"), Lib("crypto"), Lib("grpc")>>), NoFile>>

\* A deviation <<d, i>> gives input d its i-th other value.
Deviations == UNION { {<<d, i>> : i \in 1..Len(Alts(d))} : d \in Dims }

\* The sets of at most k deviations, no two of the same input.
RECURSIVE DeviationSets(_)
DeviationSets(k) ==
    IF k = 0 THEN {{}}
    ELSE LET smaller == DeviationSets(k - 1)
         IN  smaller \cup
             UNION { {devs \cup {p} :
                        p \in {q \in Deviations : \A r \in devs : r[1] # q[1]}} :
                     devs \in smaller }

Scenario(devs) ==
    [d \in Dims |->
        IF \E p \in devs : p[1] = d THEN Alts(d)[(CHOOSE p \in devs : p[1] = d)[2]]
        ELSE Nominal[d]]

FeatureDim(f) ==
    CASE f = "openssl-vendored" -> "openssl_vendored"
      [] f = "no-omit-frame-pointer" -> "no_omit_frame_pointer"
      [] f = "use-bindgen" -> "use_bindgen"
      [] OTHER -> f

ModuleDim(i) == <<"mod1", "mod2", "mod3", "mod4", "mod5">>[i]

(* ------------------------------------------------------------------ *)
(* State                                                               *)
(* ------------------------------------------------------------------ *)

VARIABLES
    pc,               \* the next step of the run, "done" or "aborted"
    features,         \* the cargo features the script is compiled with
    env,              \* the process environment
    modules,          \* the state of each required source directory
    buildDir0,        \* $OUT_DIR/build as the run finds it
    buildDir,         \* $OUT_DIR/build: whether it exists, its CMakeCache.txt
    native,           \* what the native build writes when it succeeds
    artifacts,        \* the output tree of the native build, once built
    cc,               \* the cc::Build that compiles grpc_wrap.cc
    config,           \* the cmake::Config of build_grpc
    out,              \* the directives printed so far, a bag
    library,          \* "grpc" or "grpc_unsecure"
    cxx_compiler,     \* the compiler build_grpc selected
    file_path,        \* the binding file config_binding_path selected
    panic,            \* the panic that ended the run
    steps,            \* the steps executed so far, in order
    failed,           \* the operations that have failed so far
    nonUnicodeReads,  \* the variables read while set to a non-Unicode value
    removeCalls,      \* calls of fs::remove_dir_all on the build directory
    bindgenCalls      \* calls of bindgen_grpc

vars ==
    <<pc, features, env, modules, buildDir0, buildDir, native, artifacts, cc, config, out, library,
      cxx_compiler, file_path, panic, steps, failed, nonUnicodeReads, removeCalls,
      bindgenCalls>>

inputs == <<features, modules, buildDir0, native>>

NoPanic == [who |-> "", arg |-> ""]

Init ==
    \E devs \in DeviationSets(MaxDev) :
      LET s == Scenario(devs) IN
        /\ pc = "main"
        /\ features = {f \in Features : s[FeatureDim(f)]}
        /\ env = [v \in EnvVars |-> s[v]]
        /\ modules = [i \in 1..Len(Modules) |-> s[ModuleDim(i)]]
        /\ buildDir0 = s["build_dir"]
        /\ buildDir = s["build_dir"]
        /\ native = [ssl |-> s["native_ssl"], gpr_pc |-> s["gpr_pc"], lib_pc |-> s["lib_pc"]]
        /\ artifacts = [built |-> FALSE, gpr_pc |-> NoFile, lib_pc |-> NoFile, archives |-> {}]
        /\ cc = [defines |-> {}, includes |-> {}, flags |-> {}, files |-> {}, compiled |-> FALSE]
        /\ config = [defines |-> {}, cflags |-> {}, cxxflags |-> {}, deps |-> {},
                     target |-> <<>>, build_target |-> ""]
        /\ out = EmptyBag
        /\ library = ""
        /\ cxx_compiler = <<>>
        /\ file_path = <<>>
        /\ panic = NoPanic
        /\ steps = <<>>
        /\ failed = {}
        /\ nonUnicodeReads = {}
        /\ removeCalls = 0
        /\ bindgenCalls = 0

(* ------------------------------------------------------------------ *)
(* get_env                                                             *)
(* ------------------------------------------------------------------ *)

\* get_env(name) prints this before it reads the variable.
RerunIfEnvChanged(by, name) == D(by, "rerun-if-env-changed", <<name>>)

GetEnvPanics(name) == env[name].kind = "NotUnicode"

get_env(name) == IF env[name].kind = "Ok" THEN Some(env[name].val) ELSE None

\* get_env(name).map_or(false, |s| s == value)
GetEnvIs(name, value) == get_env(name).some /\ get_env(name).val = Str(value)

\* env::var(name).unwrap() panics unless the variable is set to Unicode text.
UnwrapPanics(name) == env[name].kind # "Ok"

Abort(who, arg, op) ==
    /\ pc' = "aborted"
    /\ panic' = [who |-> who, arg |-> arg]
    /\ failed' = failed \cup {op}

(* ------------------------------------------------------------------ *)
(* main, up to the choice between pkg-config and the native build      *)
(* ------------------------------------------------------------------ *)

\* The probe taken for any value of the variable.
UsePkgConfig_AnyValue == get_env("GRPCIO_SYS_USE_PKG_CONFIG").some

\* get_env("GRPCIO_SYS_USE_PKG_CONFIG").map_or(false, |s| s == "1")
UsePkgConfig == GetEnvIs("GRPCIO_SYS_USE_PKG_CONFIG", "1")

main ==
    /\ pc = "main"
    /\ steps' = Append(steps, "main")
    /\ library' = IF "secure" \in features THEN "grpc" ELSE "grpc_unsecure"
    /\ LET head == <<D("main", "rerun-if-changed", <<"grpc_wrap.cc">>),
                     D("main", "rerun-if-changed", <<"grpc">>),
                     D("main", "rerun-if-env-changed", <<"UPDATE_BIND">>),
                     RerunIfEnvChanged("main", "CARGO_CFG_TARGET_OS")>>
           secure == IF "secure" \in features THEN {<<"GRPC_SYS_SECURE", "">>} ELSE {}
           winnt == IF GetEnvIs("CARGO_CFG_TARGET_OS", "windows")
                    THEN {<<"_WIN32_WINNT", "0x600">>} ELSE {}
       IN  IF GetEnvPanics("CARGO_CFG_TARGET_OS")
           THEN /\ out' = Emit(out, head)
                /\ cc' = [cc EXCEPT !.defines = secure]
                /\ nonUnicodeReads' = nonUnicodeReads \cup {"CARGO_CFG_TARGET_OS"}
                /\ Abort("get_env", "CARGO_CFG_TARGET_OS", "CARGO_CFG_TARGET_OS")
           ELSE /\ out' = Emit(out, head \o
                               <<RerunIfEnvChanged("main", "GRPCIO_SYS_USE_PKG_CONFIG")>>)
                /\ cc' = [cc EXCEPT !.defines = secure \cup winnt]
                /\ IF GetEnvPanics("GRPCIO_SYS_USE_PKG_CONFIG")
                   THEN /\ nonUnicodeReads' =
                               nonUnicodeReads \cup {"GRPCIO_SYS_USE_PKG_CONFIG"}
                        /\ Abort("get_env", "GRPCIO_SYS_USE_PKG_CONFIG",
                                 "GRPCIO_SYS_USE_PKG_CONFIG")
                   ELSE /\ pc' = IF UsePkgConfig THEN "probe_library" ELSE "prepare_grpc"
                        /\ UNCHANGED <<panic, failed, nonUnicodeReads>>
    /\ UNCHANGED <<inputs, env, buildDir, artifacts, config, cxx_compiler, file_path,
                   removeCalls, bindgenCalls>>

\* pkg-config's probe of the installed library: found, or not.
probe_library ==
    /\ pc = "probe_library"
    /\ steps' = Append(steps, "probe_library")
    /\ \E found \in BOOLEAN :
          IF found
          THEN /\ out' = Emit(out, <<D("probe_library", "rustc-link-lib", <<library>>)>>)
               /\ cc' = [cc EXCEPT !.includes = @ \cup {"pkg-config include paths"}]
               /\ pc' = "compile"
               /\ UNCHANGED <<panic, failed>>
          ELSE /\ UNCHANGED <<out, cc>>
               /\ Abort("probe_library", library, "probe_library")
    /\ UNCHANGED <<inputs, env, buildDir, artifacts, config, library, cxx_compiler,
                   file_path, nonUnicodeReads, removeCalls, bindgenCalls>>

(* ------------------------------------------------------------------ *)
(* The statements of build_grpc, in order                              *)
(* ------------------------------------------------------------------ *)

\* The same statements with clean_up_stale_cache called after the build.
NextStep_CleanUpLate(step) ==
    CASE step = "prepare_grpc" -> "select_compiler"
      [] step = "select_compiler" -> "configure"
      [] step = "configure" -> "setup_libz"
      [] step = "setup_libz" -> "cmake_build"
      [] step = "cmake_build" -> "clean_up_stale_cache"
      [] step = "clean_up_stale_cache" -> "collect"
      [] step = "collect" -> "link_security"

NextStep(step) ==
    CASE step = "prepare_grpc" -> "select_compiler"
      [] step = "select_compiler" -> "clean_up_stale_cache"
      [] step = "clean_up_stale_cache" -> "configure"
      [] step = "configure" -> "setup_libz"
      [] step = "setup_libz" -> "cmake_build"
      [] step = "cmake_build" -> "collect"
      [] step = "collect" -> "link_security"

(* ------------------------------------------------------------------ *)
(* prepare_grpc                                                        *)
(* ------------------------------------------------------------------ *)

\* fs::read_dir(p)?, then entries.next().is_none()
is_directory_empty(status) ==
    CASE status = "missing" -> [ok |-> FALSE, val |-> FALSE]
      [] status = "empty" -> [ok |-> TRUE, val |-> TRUE]
      [] OTHER -> [ok |-> TRUE, val |-> FALSE]

\* is_directory_empty(module).unwrap_or(true)
EmptyOrUnreadable_Lenient(status) ==
    LET r == is_directory_empty(status) IN IF r.ok THEN r.val ELSE FALSE

EmptyOrUnreadable(status) ==
    LET r == is_directory_empty(status) IN IF r.ok THEN r.val ELSE TRUE

\* The module at which the loop of prepare_grpc panics, 0 if it runs through.
FirstUnusable ==
    IF \E i \in 1..Len(Modules) : EmptyOrUnreadable(modules[i])
    THEN CHOOSE i \in 1..Len(Modules) :
            /\ EmptyOrUnreadable(modules[i])
            /\ \A j \in 1..(i - 1) : ~EmptyOrUnreadable(modules[j])
    ELSE 0

prepare_grpc ==
    /\ pc = "prepare_grpc"
    /\ steps' = Append(steps, "prepare_grpc")
    /\ IF FirstUnusable # 0
       THEN Abort("prepare_grpc", Modules[FirstUnusable], "prepare_grpc")
       ELSE /\ pc' = NextStep("prepare_grpc")
            /\ UNCHANGED <<panic, failed>>
    /\ UNCHANGED <<inputs, env, buildDir, artifacts, cc, config, out, library,
                   cxx_compiler, file_path, nonUnicodeReads, removeCalls, bindgenCalls>>

(* ------------------------------------------------------------------ *)
(* build_grpc: the target, the platform flags, the C++ compiler        *)
(* ------------------------------------------------------------------ *)

NonUnicode(name) == IF env[name].kind = "NotUnicode" THEN {name} ELSE {}

build_grpc_select_compiler ==
    /\ pc = "select_compiler"
    /\ steps' = Append(steps, "select_compiler")
    /\ LET macos == GetEnvIs("CARGO_CFG_TARGET_OS", "macos")
           ios == GetEnvIs("CARGO_CFG_TARGET_OS", "ios")
           os == RerunIfEnvChanged("build_grpc", "CARGO_CFG_TARGET_OS")
           platform == <<os, os>> \o (IF macos THEN <<>> ELSE <<os>>)
                       \o (IF macos \/ ios
                           THEN <<D("build_grpc", "rustc-link-lib", <<"framework=CoreFoundation">>)>>
                           ELSE <<>>)
           flags == IF macos THEN {"-stdlib=libc++"} ELSE {}
           cxx == get_env("CXX")
           musl == env["CARGO_CFG_TARGET_ENV"].val = Str("musl")
       IN  IF UnwrapPanics("TARGET")
           THEN /\ UNCHANGED <<out, config, cxx_compiler>>
                /\ nonUnicodeReads' = nonUnicodeReads \cup NonUnicode("TARGET")
                /\ Abort("unwrap", "TARGET", "TARGET")
           ELSE IF GetEnvPanics("CARGO_CFG_TARGET_OS")
           THEN /\ out' = Emit(out, <<os>>)
                /\ UNCHANGED <<config, cxx_compiler>>
                /\ nonUnicodeReads' = nonUnicodeReads \cup {"CARGO_CFG_TARGET_OS"}
                /\ Abort("get_env", "CARGO_CFG_TARGET_OS", "CARGO_CFG_TARGET_OS")
           ELSE IF GetEnvPanics("CXX")
           THEN /\ out' = Emit(out, platform \o <<RerunIfEnvChanged("build_grpc", "CXX")>>)
                /\ config' = [config EXCEPT !.cxxflags = flags]
                /\ UNCHANGED cxx_compiler
                /\ nonUnicodeReads' = nonUnicodeReads \cup {"CXX"}
                /\ Abort("get_env", "CXX", "CXX")
           ELSE IF ~cxx.some /\ UnwrapPanics("CARGO_CFG_TARGET_ENV")
           THEN /\ out' = Emit(out, platform \o <<RerunIfEnvChanged("build_grpc", "CXX")>>)
                /\ config' = [config EXCEPT !.cxxflags = flags]
                /\ UNCHANGED cxx_compiler
                /\ nonUnicodeReads' = nonUnicodeReads \cup NonUnicode("CARGO_CFG_TARGET_ENV")
                /\ Abort("unwrap", "CARGO_CFG_TARGET_ENV", "CARGO_CFG_TARGET_ENV")
           ELSE /\ out' = Emit(out, platform \o <<RerunIfEnvChanged("build_grpc", "CXX")>>)
                /\ cxx_compiler' = IF cxx.some THEN cxx.val
                                   ELSE IF musl THEN Str("g++")
                                   ELSE Str(DefaultCompiler)
                /\ config' = [config EXCEPT
                                !.cxxflags = flags,
                                !.defines = IF cxx.some THEN {<<"CMAKE_CXX_COMPILER", cxx.val>>}
                                            ELSE IF musl THEN {<<"CMAKE_CXX_COMPILER", Str("g++")>>}
                                            ELSE {}]
                /\ pc' = NextStep("select_compiler")
                /\ UNCHANGED <<panic, failed, nonUnicodeReads>>
    /\ UNCHANGED <<inputs, env, buildDir, artifacts, cc, library, file_path, removeCalls,
                   bindgenCalls>>

(* ------------------------------------------------------------------ *)
(* clean_up_stale_cache                                                *)
(* ------------------------------------------------------------------ *)

\* The closure of f.lines().any(..): the line records another compiler.
LineStale_Same(l, compiler) ==
    LET t == trim_start(l, <<"CMAKE_CXX_COMPILER:">>)
    IN  /\ t.some
        /\ Len(SplitN2(t.val, "=")) = 2
        /\ SplitN2(t.val, "=")[2] = compiler

LineStale(l, compiler) ==
    LET t == trim_start(l, <<"CMAKE_CXX_COMPILER:">>)
    IN  /\ t.some
        /\ Len(SplitN2(t.val, "=")) = 2
        /\ SplitN2(t.val, "=")[2] # compiler

\* A cache file that cannot be opened is not stale.
CacheStale_MissingIsStale(cache, compiler) ==
    IF ~cache.exists THEN TRUE
    ELSE \E i \in 1..Len(cache.lines) : LineStale(cache.lines[i], compiler)

CacheStale(cache, compiler) ==
    IF ~cache.exists THEN FALSE
    ELSE \E i \in 1..Len(cache.lines) : LineStale(cache.lines[i], compiler)

\* What fs::remove_dir_all can leave behind: nothing, or, when it fails, the
\* directory with or without the cache file.
RemoveOutcomes == {"removed", "failed", "failed-partway"}

clean_up_stale_cache ==
    /\ pc = "clean_up_stale_cache"
    /\ steps' = Append(steps, "clean_up_stale_cache")
    /\ IF UnwrapPanics("OUT_DIR")
       THEN /\ nonUnicodeReads' = nonUnicodeReads \cup NonUnicode("OUT_DIR")
            /\ Abort("unwrap", "OUT_DIR", "OUT_DIR")
            /\ UNCHANGED <<buildDir, removeCalls>>
       ELSE /\ pc' = NextStep("clean_up_stale_cache")
            /\ UNCHANGED <<panic, nonUnicodeReads>>
            /\ IF CacheStale(buildDir.cache, cxx_compiler)
               THEN /\ removeCalls' = removeCalls + 1
                    /\ \E outcome \in RemoveOutcomes :
                          /\ buildDir' =
                                CASE outcome = "removed" -> BuildDirAbsent
                                  [] outcome = "failed" -> buildDir
                                  [] OTHER -> BuildDirWith(NoFile)
                          \* let _ = ..: the Result is dropped
                          /\ failed' = IF outcome = "removed" THEN failed
                                       ELSE failed \cup {"remove_dir_all"}
               ELSE UNCHANGED <<buildDir, removeCalls, failed>>
    /\ UNCHANGED <<inputs, env, artifacts, cc, config, out, library, cxx_compiler,
                   file_path, bindgenCalls>>

(* ------------------------------------------------------------------ *)
(* build_grpc: the configuration of the native build                   *)
(* ------------------------------------------------------------------ *)

\* Cross-compile support for iOS.
IosDefines(target) ==
    CASE target = Str("aarch64-apple-ios") ->
            {<<"CMAKE_OSX_SYSROOT", Str("iphoneos")>>,
             <<"CMAKE_OSX_ARCHITECTURES", Str("arm64")>>}
      [] target = Str("armv7-apple-ios") ->
            {<<"CMAKE_OSX_SYSROOT", Str("iphoneos")>>,
             <<"CMAKE_OSX_ARCHITECTURES", Str("armv7")>>}
      [] target = Str("armv7s-apple-ios") ->
            {<<"CMAKE_OSX_SYSROOT", Str("iphoneos")>>,
             <<"CMAKE_OSX_ARCHITECTURES", Str("armv7s")>>}
      [] target = Str("i386-apple-ios") ->
            {<<"CMAKE_OSX_SYSROOT", Str("iphonesimulator")>>,
             <<"CMAKE_OSX_ARCHITECTURES", Str("i386")>>}
      [] target = Str("x86_64-apple-ios") ->
            {<<"CMAKE_OSX_SYSROOT", Str("iphonesimulator")>>,
             <<"CMAKE_OSX_ARCHITECTURES", Str("x86_64")>>}
      [] OTHER -> {}

FixedDefines ==
    {<<"gRPC_INSTALL", Str("false")>>, <<"gRPC_BUILD_CSHARP_EXT", Str("false")>>,
     <<"gRPC_BUILD_CODEGEN", Str("false")>>, <<"gRPC_BENCHMARK_PROVIDER", Str("none")>>,
     <<"gRPC_SSL_PROVIDER", Str("package")>>}

\* Lines 115-171.  The vendored security library is built (build_boringssl)
\* unless the openssl feature is on; that nested build succeeds or panics.
build_grpc_configure ==
    /\ pc = "configure"
    /\ steps' = Append(steps, "configure")
    /\ LET override == env["CMAKE_TARGET_OVERRIDE"]
           boring == "openssl" \notin features
           framePointer == IF "no-omit-frame-pointer" \in features
                           THEN {"-fno-omit-frame-pointer"} ELSE {}
           ignored == NonUnicode("CMAKE_TARGET_OVERRIDE")
       IN  \E boringBuilt \in (IF boring THEN BOOLEAN ELSE {TRUE}) :
              /\ nonUnicodeReads' = nonUnicodeReads \cup ignored
              /\ IF ~boringBuilt
                 THEN /\ config' = [config EXCEPT
                                      !.defines = @ \cup IosDefines(env["TARGET"].val)
                                                    \cup FixedDefines,
                                      !.target = IF override.kind = "Ok"
                                                 THEN override.val ELSE @]
                      /\ UNCHANGED out
                      /\ pc' = "aborted"
                      /\ panic' = [who |-> "build_boringssl", arg |-> ""]
                      /\ failed' = failed \cup ignored \cup {"build_boringssl"}
                 ELSE /\ config' = [config EXCEPT
                                      !.defines = @ \cup IosDefines(env["TARGET"].val)
                                                    \cup FixedDefines
                                                    \cup (IF boring
                                                          THEN {<<"OPENSSL_ROOT_DIR",
                                                                  Str("boringssl")>>}
                                                          ELSE {}),
                                      !.target = IF override.kind = "Ok"
                                                 THEN override.val ELSE @,
                                      !.deps = IF ~boring /\ "openssl-vendored" \in features
                                               THEN {"openssl"} ELSE {},
                                      !.cflags = framePointer,
                                      !.cxxflags = @ \cup framePointer]
                      /\ out' = IF boring
                                THEN Emit(out, <<D("build_boringssl", "rustc-link-search",
                                                   <<"boringssl", "/", "lib">>)>>)
                                ELSE out
                      /\ pc' = NextStep("configure")
                      /\ failed' = failed \cup ignored
                      /\ UNCHANGED panic
    /\ UNCHANGED <<inputs, env, buildDir, artifacts, cc, library, cxx_compiler,
                   file_path, removeCalls, bindgenCalls>>

(* ------------------------------------------------------------------ *)
(* setup_libz                                                          *)
(* ------------------------------------------------------------------ *)

setup_libz ==
    /\ pc = "setup_libz"
    /\ steps' = Append(steps, "setup_libz")
    /\ config' = [config EXCEPT
                    !.defines = @ \cup {<<"gRPC_ZLIB_PROVIDER", Str("package")>>},
                    !.deps = @ \cup {"Z"}]
    /\ IF UnwrapPanics("DEP_Z_ROOT")
       THEN /\ nonUnicodeReads' = nonUnicodeReads \cup NonUnicode("DEP_Z_ROOT")
            /\ Abort("unwrap", "DEP_Z_ROOT", "DEP_Z_ROOT")
            /\ UNCHANGED <<env, out>>
       ELSE LET zlib_root == env["DEP_Z_ROOT"].val
                old == env["CMAKE_PREFIX_PATH"]
                prefix_path == IF old.kind = "Ok"
                               THEN old.val \o <<";">> \o zlib_root \o <<"/build">>
                               ELSE zlib_root \o <<"/build">>
            IN  /\ out' = Emit(out,
                               <<D("setup_libz", "rustc-link-search", zlib_root \o <<"/build">>),
                                 D("setup_libz", "rustc-link-search", zlib_root \o <<"/lib">>)>>)
                /\ env' = [env EXCEPT !["CMAKE_PREFIX_PATH"] = OkText(prefix_path)]
                /\ nonUnicodeReads' = nonUnicodeReads \cup NonUnicode("CMAKE_PREFIX_PATH")
                /\ failed' = failed \cup NonUnicode("CMAKE_PREFIX_PATH")
                /\ pc' = NextStep("setup_libz")
                /\ UNCHANGED panic
    /\ UNCHANGED <<inputs, buildDir, artifacts, cc, library, cxx_compiler, file_path,
                   removeCalls, bindgenCalls>>

(* ------------------------------------------------------------------ *)
(* build_grpc: config.build_target(library).uses_cxx11().build()       *)
(* ------------------------------------------------------------------ *)

\* The static archives of the output tree, each with its directory.
Archives(suffix) ==
    {[dir |-> <<"out", "/build">>, name |-> <<"libgrpc", suffix>>],
     [dir |-> <<"out", "/build">>, name |-> <<"libgpr", suffix>>],
     [dir |-> <<"out", "/build", "/third_party/cares">>, name |-> <<"libcares", suffix>>],
     [dir |-> <<"out", "/build">>, name |-> <<"CMakeCache", ".txt">>]}

\* The compiler the native build records in its cache.
ConfiguredCompiler ==
    IF \E d \in config.defines : d[1] = "CMAKE_CXX_COMPILER"
    THEN (CHOOSE d \in config.defines : d[1] = "CMAKE_CXX_COMPILER")[2]
    ELSE Str(NativeDefaultCompiler)

build_grpc_build ==
    /\ pc = "cmake_build"
    /\ steps' = Append(steps, "cmake_build")
    /\ config' = [config EXCEPT !.build_target = library]
    /\ \E built \in BOOLEAN :
          IF built
          THEN /\ buildDir' =
                     BuildDirWith(File(OtherCacheLines
                        \o << <<"CMAKE_CXX_COMPILER:", "STRING", "=">> \o ConfiguredCompiler >>
                        \o native.ssl))
               /\ artifacts' =
                     [built |-> TRUE, gpr_pc |-> native.gpr_pc, lib_pc |-> native.lib_pc,
                      archives |-> Archives(IF Contains(env["TARGET"].val, <<"msvc">>)
                                            THEN ".lib" ELSE ".a")]
               /\ pc' = NextStep("cmake_build")
               /\ UNCHANGED <<panic, failed>>
          ELSE /\ UNCHANGED <<buildDir, artifacts>>
               /\ Abort("cmake", library, "cmake")
    /\ UNCHANGED <<inputs, env, cc, out, library, cxx_compiler, file_path,
                   nonUnicodeReads, removeCalls, bindgenCalls>>

(* ------------------------------------------------------------------ *)
(* build_grpc: the archives and the libraries of the descriptor files  *)
(* ------------------------------------------------------------------ *)

RECURSIVE Flatten(_)
Flatten(ss) == IF ss = <<>> THEN <<>> ELSE Head(ss) \o Flatten(Tail(ss))

Range(s) == {s[i] : i \in 1..Len(s)}

\* l.starts_with("Libs: ")
IsLibsLine(l) == Len(l) > 1 /\ l[1] = <<"Libs:">>

\* The names the closure inserts for one file, in the order it meets them:
\* every word of a "Libs: " line that strip_prefix("-l") accepts.
LibNames(file) ==
    LET libsLines == SelectSeq(file.lines, IsLibsLine)
        named(w) == StartsWith(w, <<"-l">>)
        names(l) == LET ws == SelectSeq(l, named)
                    IN  [i \in 1..Len(ws) |-> Tail(ws[i])]
    IN  Flatten([i \in 1..Len(libsLines) |-> names(libsLines[i])])

\* collect(path, &mut to): HashSet::insert of every name.
collect(file, to) == to \cup Range(LibNames(file))

StaticLib(by, name) == D(by, "rustc-link-lib", <<"static=">> \o name)

\* One directive for each insertion, as a Vec in place of the HashSet would give.
LinkLibs_Vec(gpr_pc, lib_pc) ==
    LET all == LibNames(gpr_pc) \o LibNames(lib_pc)
    IN  Emit(EmptyBag, [i \in 1..Len(all) |-> StaticLib("collect", all[i])])

\* Lines 206-211: the directives printed for the HashSet of both files.
LinkLibs(gpr_pc, lib_pc) ==
    SetToBag({StaticLib("collect", name) : name \in collect(lib_pc, collect(gpr_pc, {}))})

build_grpc_collect ==
    /\ pc = "collect"
    /\ steps' = Append(steps, "collect")
    /\ LET lib_suffix == IF Contains(env["TARGET"].val, <<"msvc">>) THEN ".lib" ELSE ".a"
           found == {a \in artifacts.archives : EndsWith(a.name, <<lib_suffix>>)}
           \* one directive for each archive, naming its directory
           searchDirs == [d \in {D("walkdir", "rustc-link-search", a.dir) : a \in found} |->
                            Cardinality({a \in found : a.dir = d.arg})]
       IN  /\ out' = IF artifacts.gpr_pc.exists /\ artifacts.lib_pc.exists
                     THEN out (+) searchDirs (+) LinkLibs(artifacts.gpr_pc, artifacts.lib_pc)
                     ELSE out (+) searchDirs
           /\ IF ~artifacts.gpr_pc.exists
              THEN Abort("unwrap", "gpr.pc", "open gpr.pc")
              ELSE IF ~artifacts.lib_pc.exists
              THEN Abort("unwrap", library, "open library.pc")
              ELSE /\ pc' = NextStep("collect")
                   /\ UNCHANGED <<panic, failed>>
    /\ UNCHANGED <<inputs, env, buildDir, artifacts, cc, config, library, cxx_compiler,
                   file_path, nonUnicodeReads, removeCalls, bindgenCalls>>

(* ------------------------------------------------------------------ *)
(* build_grpc: the libraries of the security provider                  *)
(* ------------------------------------------------------------------ *)

SystemOpenssl ==
    "secure" \in features /\ "openssl" \in features /\ "openssl-vendored" \notin features

build_grpc_link_security ==
    /\ pc = "link_security"
    /\ steps' = Append(steps, "link_security")
    /\ IF SystemOpenssl
       THEN /\ pc' = "figure_ssl_path"
            /\ UNCHANGED <<out, cc>>
       ELSE /\ out' = IF "secure" \in features
                      THEN Emit(out, <<StaticLib("build_grpc", <<"ssl">>),
                                       StaticLib("build_grpc", <<"crypto">>)>>)
                      ELSE Emit(out, <<StaticLib("build_grpc", <<"upb">>),
                                       StaticLib("build_grpc", <<"cares">>),
                                       StaticLib("build_grpc", <<"z">>),
                                       StaticLib("build_grpc", <<"address_sorting">>)>>)
            /\ cc' = [cc EXCEPT !.includes = @ \cup {"grpc/include"}]
            /\ pc' = "compile"
    /\ UNCHANGED <<inputs, env, buildDir, artifacts, config, library, cxx_compiler,
                   file_path, panic, failed, nonUnicodeReads, removeCalls, bindgenCalls>>

(* ------------------------------------------------------------------ *)
(* figure_ssl_path                                                     *)
(* ------------------------------------------------------------------ *)

SslKey(l) ==
    LET t == trim_start(l, <<"OPENSSL_CRYPTO_LIBRARY:FILEPATH=">>)
    IN  IF t.some THEN t ELSE trim_start(l, <<"OPENSSL_SSL_LIBRARY:FILEPATH=">>)

IsSslKey(l) == SslKey(l).some

\* if cnt != 2 { panic!(..) }
WrongKeyCount_AtLeast(cnt) == cnt < 2

WrongKeyCount(cnt) == cnt # 2

figure_ssl_path ==
    /\ pc = "figure_ssl_path"
    /\ steps' = Append(steps, "figure_ssl_path")
    /\ IF ~buildDir.cache.exists
       THEN /\ Abort("unwrap", "CMakeCache.txt", "open CMakeCache.txt")
            /\ UNCHANGED <<out, cc>>
       ELSE LET keys == SelectSeq(buildDir.cache.lines, IsSslKey)
                paths == [i \in 1..Len(keys) |-> SslKey(keys[i]).val]
                rootless == {i \in 1..Len(paths) : ~Parent(paths[i]).some}
                \* the lines read before path.parent().unwrap() panics
                n == IF rootless = {} THEN Len(paths)
                     ELSE (CHOOSE i \in rootless : \A j \in rootless : i <= j) - 1
                search == [i \in 1..n |->
                             D("figure_ssl_path", "rustc-link-search", Parent(paths[i]).val)]
            IN  IF rootless # {}
                THEN /\ out' = Emit(out, search)
                     /\ Abort("unwrap", "parent", "parent")
                     /\ UNCHANGED cc
                ELSE IF WrongKeyCount(Len(keys))
                THEN /\ out' = Emit(out, search)
                     /\ Abort("figure_ssl_path", "ssl keys", "figure_ssl_path")
                     /\ UNCHANGED cc
                ELSE /\ out' = Emit(out, search \o
                                    <<D("figure_ssl_path", "rustc-link-lib", <<"ssl">>),
                                      D("figure_ssl_path", "rustc-link-lib", <<"crypto">>)>>)
                     /\ cc' = [cc EXCEPT !.includes = @ \cup {"grpc/include"}]
                     /\ pc' = "compile"
                     /\ UNCHANGED <<panic, failed>>
    /\ UNCHANGED <<inputs, env, buildDir, artifacts, config, library, cxx_compiler,
                   file_path, nonUnicodeReads, removeCalls, bindgenCalls>>

(* ------------------------------------------------------------------ *)
(* main: the compilation of grpc_wrap.cc                               *)
(* ------------------------------------------------------------------ *)

\* cfg!(target_env = "msvc") of the build script itself.
HostIsMsvc == FALSE

compile_shim ==
    /\ pc = "compile"
    /\ steps' = Append(steps, "compile")
    /\ \E compiled \in BOOLEAN :
          /\ cc' = [cc EXCEPT
                      !.flags = IF HostIsMsvc THEN {"cpp", "warnings_into_errors"}
                                ELSE {"cpp", "-std=c++11", "warnings_into_errors"},
                      !.files = {"grpc_wrap.cc"},
                      !.compiled = compiled]
          /\ IF compiled
             THEN /\ pc' = "config_binding_path"
                  /\ UNCHANGED <<panic, failed>>
             ELSE Abort("cc", "libgrpc_wrap.a", "cc")
    /\ UNCHANGED <<inputs, env, buildDir, artifacts, config, out, library, cxx_compiler,
                   file_path, nonUnicodeReads, removeCalls, bindgenCalls>>

(* ------------------------------------------------------------------ *)
(* config_binding_path and bindgen_grpc                                *)
(* ------------------------------------------------------------------ *)

BindingPath(path) == D("config_binding_path", "rustc-env", <<"BINDING_PATH=">> \o path)

\* Whether config_binding_path calls bindgen_grpc for this target.  Both call
\* sites are compiled only with the use-bindgen feature.
NeedsBindgen_NoFeatureGate(tgt) ==
    IF tgt \in PreGenerated THEN env["UPDATE_BIND"].kind = "Ok" ELSE TRUE

NeedsBindgen(tgt) ==
    /\ "use-bindgen" \in features
    /\ IF tgt \in PreGenerated THEN env["UPDATE_BIND"].kind = "Ok" ELSE TRUE

config_binding_path ==
    /\ pc = "config_binding_path"
    /\ steps' = Append(steps, "config_binding_path")
    /\ LET tgt == env["TARGET"].val
           pre == tgt \in PreGenerated
           dirVar == IF pre THEN "CARGO_MANIFEST_DIR" ELSE "OUT_DIR"
           rerun == IF pre
                    THEN <<D("config_binding_path", "rerun-if-changed",
                             <<"bindings/">> \o tgt \o <<"-bindings.rs">>)>>
                    ELSE <<>>
           \* env::var("UPDATE_BIND").is_ok() takes a non-Unicode value for an unset one
           ignored == IF pre /\ "use-bindgen" \in features
                      THEN NonUnicode("UPDATE_BIND") ELSE {}
           path == IF pre
                   THEN env[dirVar].val \o <<"/bindings/">> \o tgt \o <<"-bindings.rs">>
                   ELSE env[dirVar].val \o <<"/grpc-bindings.rs">>
       IN  IF UnwrapPanics("TARGET")
           THEN /\ nonUnicodeReads' = nonUnicodeReads \cup NonUnicode("TARGET")
                /\ Abort("unwrap", "TARGET", "TARGET")
                /\ UNCHANGED <<out, file_path>>
           ELSE IF UnwrapPanics(dirVar)
           THEN /\ nonUnicodeReads' = nonUnicodeReads \cup NonUnicode(dirVar)
                /\ Abort("unwrap", dirVar, dirVar)
                /\ out' = Emit(out, rerun)
                /\ UNCHANGED file_path
           ELSE /\ file_path' = path
                /\ nonUnicodeReads' = nonUnicodeReads \cup ignored
                /\ failed' = failed \cup ignored
                /\ UNCHANGED panic
                /\ IF NeedsBindgen(tgt)
                   THEN /\ pc' = "bindgen_grpc"
                        /\ out' = Emit(out, rerun)
                   ELSE /\ pc' = "done"
                        /\ out' = Emit(out, rerun \o <<BindingPath(path)>>)
    /\ UNCHANGED <<inputs, env, buildDir, artifacts, cc, config, library, cxx_compiler,
                   removeCalls, bindgenCalls>>

\* The header walk, the generation and the write each succeed or panic.
BindgenOutcomes == {"written", "headers-failed", "generate-failed"}

\* bindgen_grpc(&file_path), then the last println of config_binding_path.
bindgen_grpc ==
    /\ pc = "bindgen_grpc"
    /\ steps' = Append(steps, "bindgen_grpc")
    /\ bindgenCalls' = bindgenCalls + 1
    /\ LET os == RerunIfEnvChanged("bindgen_grpc", "CARGO_CFG_TARGET_OS")
           test == D("bindgen_grpc", "rerun-if-env-changed", <<"TEST_BIND">>)
           \* env::var("TEST_BIND").map_or(false, ..) takes any Err for "not 1"
           ignored == NonUnicode("TEST_BIND")
       IN  IF GetEnvPanics("CARGO_CFG_TARGET_OS")
           THEN /\ out' = Emit(out, <<os>>)
                /\ nonUnicodeReads' = nonUnicodeReads \cup {"CARGO_CFG_TARGET_OS"}
                /\ Abort("get_env", "CARGO_CFG_TARGET_OS", "CARGO_CFG_TARGET_OS")
           ELSE \E outcome \in BindgenOutcomes :
                   CASE outcome = "headers-failed" ->
                          /\ out' = Emit(out, <<os>>)
                          /\ UNCHANGED nonUnicodeReads
                          /\ Abort("expect", "headers", "headers")
                     [] outcome = "generate-failed" ->
                          /\ out' = Emit(out, <<os, test>>)
                          /\ nonUnicodeReads' = nonUnicodeReads \cup ignored
                          /\ pc' = "aborted"
                          /\ panic' = [who |-> "expect", arg |-> "bindgen"]
                          /\ failed' = failed \cup ignored \cup {"bindgen"}
                     [] OTHER ->
                          /\ out' = Emit(out, <<os, test, BindingPath(file_path)>>)
                          /\ nonUnicodeReads' = nonUnicodeReads \cup ignored
                          /\ failed' = failed \cup ignored
                          /\ pc' = "done"
                          /\ UNCHANGED panic
    /\ UNCHANGED <<inputs, env, buildDir, artifacts, cc, config, library, cxx_compiler,
                   file_path, removeCalls>>

(* ------------------------------------------------------------------ *)
(* The run                                                             *)
(* ------------------------------------------------------------------ *)

Next ==
    \/ main
    \/ probe_library
    \/ prepare_grpc
    \/ build_grpc_select_compiler
    \/ clean_up_stale_cache
    \/ build_grpc_configure
    \/ setup_libz
    \/ build_grpc_build
    \/ build_grpc_collect
    \/ build_grpc_link_security
    \/ figure_ssl_path
    \/ compile_shim
    \/ config_binding_path
    \/ bindgen_grpc

Spec == Init /\ [][Next]_vars

(* ------------------------------------------------------------------ *)
(* Properties                                                          *)
(* ------------------------------------------------------------------ *)

Done(step) == \E i \in 1..Len(steps) : steps[i] = step

LastStep == IF steps = <<>> THEN "" ELSE steps[Len(steps)]

\* The step has returned: it ran and the run did not panic inside it.
Returned(step) == Done(step) /\ ~(pc = "aborted" /\ LastStep = step)

Occurrences(step) == Cardinality({i \in 1..Len(steps) : steps[i] = step})

\* How many directives of the bag satisfy both tests.
Printed(by, kind) ==
    LET ds == {d \in DOMAIN out : d.by = by /\ d.kind = kind}
    IN  BagCardinality([d \in ds |-> out[d]])

RecordedCompilers == {DefaultCompiler, "g++", "/opt/cc=11/g++"}

C2_SslKeyCount ==
    Done("figure_ssl_path") =>
        IF Len(native.ssl) = 2
        THEN /\ Returned("figure_ssl_path")
             /\ Printed("figure_ssl_path", "rustc-link-search") = 2
             /\ LastStep = "figure_ssl_path" => pc = "compile"
        ELSE /\ pc = "aborted"
             /\ panic = [who |-> "figure_ssl_path", arg |-> "ssl keys"]

C2_Witness ==
    /\ LastStep = "figure_ssl_path"
    /\ Len(native.ssl) = 2
    /\ pc = "compile"
    /\ Printed("figure_ssl_path", "rustc-link-search") = 2

BindgenCalled == pc = "bindgen_grpc" \/ bindgenCalls > 0

Listed(file) ==
    {w[2] : w \in {x \in Range(file.lines[2]) : x[1] = "-l"}}

StaticPrinted(name) ==
    Count(out, StaticLib("collect", <<name>>)) + Count(out, StaticLib("build_grpc", <<name>>))

\* C4 as the spec states it: the static-link directives one run of build_grpc
\* prints name each library exactly once.
C4_Original ==
    \A d \in DOMAIN out :
        (d.kind = "rustc-link-lib" /\ d.by \in {"collect", "build_grpc"}
         /\ StartsWith(d.arg, <<"static=">>))
        => StaticPrinted(d.arg[2]) = 1

\* C4 (amended): the static-link directives printed for the names collected
\* from gpr.pc and the library's .pc name each library on a "Libs: " line of
\* either file exactly once, however often the files list it; the directives
\* build_grpc prints afterwards for the security provider or the insecure
\* build are not checked against that set.
C4_CollectedOnce ==
    Returned("collect") =>
        /\ \A d \in DOMAIN out : d.by = "collect" => out[d] = 1
        /\ {d.arg : d \in {x \in DOMAIN out : x.by = "collect"}}
              = {<<"static=", n>> : n \in Listed(artifacts.gpr_pc) \cup Listed(artifacts.lib_pc)}

C4_Witness ==
    /\ Returned("collect")
    /\ artifacts.gpr_pc = PcFile(<<Lib("gpr"), Lib("upb"), Lib("gpr")>>)
    /\ Count(out, StaticLib("collect", <<"gpr">>)) = 1
    /\ Count(out, StaticLib("collect", <<"upb">>)) = 1

Unusable == {i \in 1..Len(Modules) : modules[i] # "ok"}

NativeBuildSteps ==
    {"select_compiler", "clean_up_stale_cache", "configure", "setup_libz", "cmake_build",
     "collect", "link_security", "figure_ssl_path"}

\* C5: when one of the five module directories is missing or empty,
\* prepare_grpc panics before any step of the native build, and the message
\* names the first such directory of its list; when all five are there and
\* not empty it returns.
C5_SourceValidation ==
    Done("prepare_grpc") =>
        IF Unusable # {}
        THEN /\ pc = "aborted"
             /\ panic.who = "prepare_grpc"
             /\ \E i \in Unusable :
                   /\ panic.arg = Modules[i]
                   /\ \A j \in Unusable : i <= j
             /\ \A s \in NativeBuildSteps : ~Done(s)
             /\ ~artifacts.built
        ELSE Returned("prepare_grpc")

C5_Witness ==
    /\ modules[2] = "empty"
    /\ modules[4] = "missing"
    /\ pc = "aborted"
    /\ panic = [who |-> "prepare_grpc", arg |-> "grpc/third_party/cares/cares"]

\* The place of each step in the chain the spec gives.
SpecRank(step) ==
    CASE step = "prepare_grpc" -> 1
      [] step = "clean_up_stale_cache" -> 2
      [] step \in {"configure", "setup_libz", "cmake_build"} -> 3
      [] step \in {"collect", "link_security"} -> 4
      [] step = "figure_ssl_path" -> 5
      [] step \in {"config_binding_path", "bindgen_grpc"} -> 6
      [] step = "compile" -> 7
      [] OTHER -> 0

\* The same chain with the compilation of the shim before the bindings.
CodeRank(step) ==
    CASE step = "compile" -> 6
      [] step \in {"config_binding_path", "bindgen_grpc"} -> 7
      [] OTHER -> SpecRank(step)

C7_Original == failed # {} => pc = "aborted"

\* C8 as the spec states it: a run that has read an environment variable
\* set to a non-Unicode value is aborted.
C8_Original == nonUnicodeReads # {} => pc = "aborted"

\* C9: when the build directory holds no configuration cache (it is absent or
\* it has no CMakeCache.txt), clean_up_stale_cache returns without an error,
\* removes nothing, leaves the directory as it found it, and the run goes on
\* to configure the native build.
C9_MissingCacheNotStale ==
    (~buildDir0.cache.exists /\ Done("clean_up_stale_cache") /\ env["OUT_DIR"].kind = "Ok")
    => /\ Returned("clean_up_stale_cache")
       /\ removeCalls = 0
       /\ "remove_dir_all" \notin failed
       /\ ~Done("cmake_build") => buildDir = buildDir0
       /\ LastStep = "clean_up_stale_cache" => pc = "configure"

C9_Witness ==
    /\ buildDir0 = BuildDirWith(NoFile)
    /\ LastStep = "clean_up_stale_cache"
    /\ pc = "configure"
    /\ buildDir = buildDir0

\* C10: with GRPCIO_SYS_USE_PKG_CONFIG equal to "1" the run probes the
\* library, compiles the shim and selects or generates the bindings, and
\* never validates the sources, purges or builds the build directory,
\* collects artifacts or resolves SSL paths; with any other value, or with
\* the variable unset, it never probes and enters build_grpc exactly once.
C10_PkgConfigBypass ==
    LET v == env["GRPCIO_SYS_USE_PKG_CONFIG"] IN
    /\ v = Ok("1") =>
          /\ \A s \in NativeBuildSteps \cup {"prepare_grpc"} : ~Done(s)
          /\ removeCalls = 0 /\ buildDir = buildDir0 /\ ~artifacts.built
          /\ Returned("main") => (pc = "probe_library" \/ Done("probe_library"))
          /\ pc = "done" => Done("compile") /\ Done("config_binding_path")
    /\ (v.kind # "NotUnicode" /\ v # Ok("1")) =>
          /\ ~Done("probe_library") /\ pc # "probe_library"
          /\ Occurrences("prepare_grpc") <= 1
          /\ Returned("main") => (pc = "prepare_grpc" \/ Occurrences("prepare_grpc") = 1)

C10_Witness ==
    /\ env["GRPCIO_SYS_USE_PKG_CONFIG"] = Ok("1")
    /\ pc = "done"
    /\ Done("probe_library")
    /\ bindgenCalls = 1

====
